---- MODULE Spec2Model ----
(***************************************************************************)
(* Model of the web-ssh backend connection handler                         *)
(* (backend/server/handler/websocket.go, message.go) together with the     *)
(* ShellConnection it drives.  One handler invocation per accepted         *)
(* WebSocket connection; the handler blocks in ReadMessage ("read") and in *)
(* shell.Connect ("dial").                                                 *)
(*                                                                         *)
(* Strings that the code inspects byte by byte (terminal payloads, shell   *)
(* output) are sequences of one-character strings; fixed texts are         *)
(* one-element sequences holding the whole text.                           *)
(***************************************************************************)
EXTENDS Naturals, Sequences, FiniteSets

\* ------------------------------------------------------------------ bounds
MaxFrames == 3      \* frames a client sends on one connection
MaxInbox  == 2      \* frames in flight (sent, not yet read by the handler)
MaxOut    == 2      \* chunks the remote shell writes on one session

\* -------------------------------------------------------- the environment
Conns == {"c1"}

IPs == {"10.0.0.1", "6.6.6.6"}
\* Security.BlockedIPs of the backend configuration
BlockedIPs == {"6.6.6.6"}

\* the single configured API key and what a caller may present
ValidKey == "k-valid"
Keys == {"k-valid", "k-wrong"}

\* CommandBlacklist.SystemCommands: rm ...
CommandBlacklist == {<<"r", "m">>}

\* what the remote end does with a dial to the target named by the metadata
Targets == {"good", "bad", "slow"}

CR  == "CR"
ESC == "ESC"
LF  == "LF"
DEL == "DEL"
TAB == "TAB"
BS  == "BS"

Payloads == {<<"l", "s", CR>>, <<"r", "m", CR>>}
OutChunks == {<<"l", "s", CR>>, <<ESC, "[", "m">>, <<"p", "w", "=", "x">>}

\* ResponseFilterConfig: sensitive patterns and their replacement
SensitivePatterns == {<<"p", "w", "=">>}
RedactReplacement == <<"*">>

\* output strings handed to the message constructor: every string of at most
\* MaxPayloadLen characters, and the output of the clear command
MaxPayloadLen == 3
MaxErrors == 2      \* critical errors delivered to one page
MaxSimInputs == 3   \* frames the simulated shell handles on one connection
MaxSent == 2        \* frames the page sends on its websocket
AnsiAlphabet == {ESC, "[", "2", "J", "H", "m", "l"}
ClearScreen == <<ESC, "[", "2", "J", ESC, "[", "H">>
AnsiPayloads ==
    UNION {[1..n -> AnsiAlphabet] : n \in 0..MaxPayloadLen} \cup {ClearScreen}

\* -------------------------------------------------------------- message.go
MessageTypeTerminalInput   == "terminal_input"
MessageTypeTerminalOutput  == "terminal_output"
MessageTypeTerminalError   == "terminal_error"
MessageTypeSystemMessage   == "system_message"
MessageTypeConnectionState == "connection_state"
MessageTypeRequestPrompt   == "request_prompt"
MessageTypeConnectionRequest == "connection_request"

ConnectionStateConnected    == "connected"
ConnectionStateDisconnected == "disconnected"
ConnectionStateConnecting   == "connecting"
ConnectionStateError        == "error"

\* NewMessage: Type and Data as given, no metadata (the timestamp is not
\* modelled).  state is "" except for connection_state messages.
NewMessage(msgType, data) ==
    [type |-> msgType, data |-> data, state |-> "", has_ansi |-> FALSE]

NewSystemMessage(message) == NewMessage(MessageTypeSystemMessage, message)

NewTerminalError(errorMsg) == NewMessage(MessageTypeTerminalError, errorMsg)

Digits == {"0", "1", "2", "3", "4", "5", "6", "7", "8", "9"}

\* containsAnsiCodes: the regexp \x1b\[[0-9;]*[mK] matches somewhere in s
containsAnsiCodes(s) ==
    \E i \in 1..Len(s) : \E j \in (i + 2)..Len(s) :
        /\ s[i] = ESC
        /\ s[i + 1] = "["
        /\ \A k \in (i + 2)..(j - 1) : s[k] \in Digits \cup {";"}
        /\ s[j] \in {"m", "K"}

\* a constructor that strips the escape bytes from the output
NewTerminalOutputStripping(output) ==
    [NewMessage(MessageTypeTerminalOutput,
                SelectSeq(output, LAMBDA ch : ch # ESC))
        EXCEPT !.has_ansi = containsAnsiCodes(output)]

\* NewTerminalOutput: the output unchanged as Data, has_ansi from detection
NewTerminalOutput(output) ==
    [NewMessage(MessageTypeTerminalOutput, output)
        EXCEPT !.has_ansi = containsAnsiCodes(output)]

\* the outbound-message slot before any message was built
NoMessage == NewMessage("none", <<>>)

\* WebSSHApp.containsAnsiEscapeCodes: one of the regexps \x1b\[[0-9;]*[mK],
\* \x1b\[[0-9;]*[ABCD], \x1b\[[0-9;]*[JH] matches somewhere in text
containsAnsiEscapeCodes(text) ==
    \E i \in 1..Len(text) : \E j \in (i + 2)..Len(text) :
        /\ text[i] = ESC
        /\ text[i + 1] = "["
        /\ \A k \in (i + 2)..(j - 1) : text[k] \in Digits \cup {";"}
        /\ text[j] \in {"m", "K", "A", "B", "C", "D", "J", "H"}

\* NewConnectionStateMessage: Data is the JSON object {state, message};
\* the pair (state, data) of the record stands for that JSON string.
NewConnectionStateMessage(st, message) ==
    [NewMessage(MessageTypeConnectionState, message) EXCEPT !.state = st]

\* Command filter: the payload starts with a blacklisted command
MatchesCommandRule(payload) ==
    \E r \in CommandBlacklist :
        Len(payload) >= Len(r) /\ SubSeq(payload, 1, Len(r)) = r

\* the type the terminal gives its resize frames, and the {cols, rows} a
\* resize frame of the model carries as data
MessageTypeResize == "terminal_resize"
ResizeData == <<"120", "40">>

\* the geometry of the PTY requested when the shell is started
InitialGeometry == <<"80", "24">>

\* RateLimitConfig.MessageRate: messages allowed per websocket and window
MessageRate == 2

\* ---------------------------------------------- frontend/js/app.js, config
\* WebSSHConfig.auth
minKeyLength == 8
maxKeyLength == 256

NoKey == <<>>
KeyChars == {"a", "b", "1", "-", "_"}
GoodKey  == [i \in 1..minKeyLength |-> "a"]
ShortKey == <<"a", "b">>
DirtyKey == <<"!">> \o GoodKey
\* what a user types into the form, what a link carries as ?api_key=
FormKeys == {GoodKey, ShortKey, DirtyKey}
UrlKeys  == {NoKey, GoodKey, DirtyKey}

Localhost == <<"l", "o", "c", "a", "l", "h", "o", "s", "t">>
Loopback  == <<"1", "2", "7", ".", "0", ".", "0", ".", "1">>
DevHost   == <<"d", "e", "v", ".", "x">>
ProdHost  == <<"s", "s", "h", ".", "i", "o">>
Hostnames == {Localhost, DevHost, ProdHost}

\* String.prototype.includes
Includes(str, sub) ==
    \E i \in 1..(Len(str) - Len(sub) + 1) :
        SubSeq(str, i, i + Len(sub) - 1) = sub

\* the environment detection of the overrides
IsDevelopment(hostname) ==
    \/ hostname = Localhost
    \/ hostname = Loopback
    \/ Includes(hostname, <<"d", "e", "v">>)
    \/ Includes(hostname, <<"s", "t", "a", "g", "i", "n", "g">>)

\* window.WebSSHConfig once the script has run: the auth and features
\* sections as written, then the production overrides, which assign to
\* features only
WebSSHConfig(hostname) ==
    [auth |-> [enableURLParameter |-> TRUE, enableDummyAuth |-> TRUE,
               useSessionStorage |-> TRUE, clearOnUnload |-> TRUE],
     features |-> [enableURLAPIKey |-> IsDevelopment(hostname),
                   enableDummyAuth |-> IsDevelopment(hostname)]]

\* sanitizeInput: drop every character outside [\w\-_]
sanitizeInput(input) == SelectSeq(input, LAMBDA ch : ch \in KeyChars)

\* dummyValidateAPIKey / validateAPIKey: length and pattern
dummyValidateAPIKey(k) ==
    /\ k # NoKey
    /\ Len(k) >= minKeyLength
    /\ Len(k) <= maxKeyLength
    /\ \A i \in 1..Len(k) : k[i] \in KeyChars

\* the constructor of WebSSHApp; authBypassed stands for the hidden
\* auth-screen element
NewWebSSHApp ==
    [apiKey |-> NoKey, connectionState |-> "disconnected", retryCount |-> 0,
     errorCount |-> 0, authBypassed |-> FALSE]

\* a freshly loaded page; dummyAuthRan, urlBypassed and lastEvent record what
\* the page has done, wsSent the types of the frames given to the socket's
\* send, dropped that an input or resize came while the socket was not open
NewBrowser(hostname, urlApiKey) ==
    [hostname |-> hostname, urlApiKey |-> urlApiKey,
     sessionStorage |-> NoKey, localStorage |-> NoKey,
     page |-> "loading", ws |-> "none", lastEvent |-> "none",
     dummyAuthRan |-> FALSE, urlBypassed |-> FALSE,
     wsSent |-> <<>>, promptTimer |-> FALSE, dropped |-> FALSE]

\* WebSSHTerminal.isNavigationKey
isNavigationKey(data) ==
    \/ /\ Len(data) >= 3
       /\ data[1] = ESC
       /\ data[2] = "["
       /\ data[3] \in {"A", "B", "C", "D"}
    \/ data \in {<<"SOH">>, <<"ENQ">>, <<"FF">>}

\* server.New and main before the select
NewServer == [main |-> "select", serve |-> "serving", quit |-> FALSE]

\* ------------------------------------------------- server.go, config.Server
\* a path is the sequence of its components, "/" first when it is absolute
DefaultPort           == "3000"
DefaultFrontendDir    == <<"frontend">>
DefaultReadTimeout    == 30
DefaultWriteTimeout   == 30
DefaultMaxConnections == 100

WorkingDir      == <<"/", "app", "backend">>
BuiltDefaultDir == <<"/", "app", "frontend">>
SrvDir          == <<"/", "srv", "www">>

\* configurations handed to server.New and directories that exist
ConfigPorts    == {"3000", "0", "abc"}
ConfigDirs     == {<<>>, <<"frontend">>, SrvDir, <<"missing">>}
ConfigTimeouts == {0, DefaultReadTimeout}
ConfigMaxConns == {0, DefaultMaxConnections}
FileSystems    == {{BuiltDefaultDir, SrvDir}, {SrvDir}}

DefaultConfig ==
    [Port |-> DefaultPort, FrontendDir |-> DefaultFrontendDir,
     ReadTimeout |-> DefaultReadTimeout, WriteTimeout |-> DefaultWriteTimeout,
     MaxConnections |-> DefaultMaxConnections]

\* strconv.Atoi on the port strings of the model
Atoi(str) ==
    CASE str = "3000" -> [err |-> FALSE, value |-> 3000]
      [] str = "0"    -> [err |-> FALSE, value |-> 0]
      [] OTHER        -> [err |-> TRUE, value |-> 0]

\* filepath.IsAbs
IsAbs(path) == path # <<>> /\ path[1] = "/"

\* filepath.Join(wd, "..", f): the parent of wd, then f
JoinParent(wd, f) == SubSeq(wd, 1, Len(wd) - 1) \o f

\* FrontendDir.Build: an absolute path is kept, a relative one is joined to
\* the parent of the working directory; log.Fatal if os.Stat says the
\* directory does not exist
Build(f, fs) ==
    LET dir == IF IsAbs(f) THEN f ELSE JoinParent(WorkingDir, f)
    IN  [dir |-> dir, fatal |-> dir \notin fs]

\* Validate: the checks in their order; Build, the last one, rewrites
\* FrontendDir of the receiver
Validate(cfg, fs) ==
    IF \/ Atoi(cfg.Port).err
       \/ Atoi(cfg.Port).value <= 0
       \/ cfg.ReadTimeout <= 0
       \/ cfg.WriteTimeout <= 0
       \/ cfg.MaxConnections <= 0
       \/ cfg.FrontendDir = <<>>
      THEN [err |-> TRUE, fatal |-> FALSE, cfg |-> cfg]
      ELSE LET b == Build(cfg.FrontendDir, fs)
           IN  [err |-> FALSE, fatal |-> b.fatal,
                cfg |-> [cfg EXCEPT !.FrontendDir = b.dir]]

\* SetDefaults: every field to its default, FrontendDir to "frontend"
SetDefaults(cfg) == DefaultConfig

\* server.New: Validate the copy of the configuration, SetDefaults if that
\* fails; newMux serves cfg.FrontendDir
New(cfg, fs) ==
    LET v == Validate(cfg, fs)
    IN  IF v.fatal
          THEN [state |-> "fatal", FrontendDir |-> <<>>]
          ELSE [state |-> "returned",
                FrontendDir |-> IF v.err THEN SetDefaults(v.cfg).FrontendDir
                                         ELSE v.cfg.FrontendDir]

\* NewShellSession: empty input, the fixed prompt; out is what the session
\* wrote to its connection, lastInput/lastKey/handled record the latest call
NewShellSession ==
    [currentInput |-> <<>>, out |-> <<>>, handled |-> 0,
     lastInput |-> <<>>, lastKey |-> "none"]

\* the process before server.New is called
NewBoot(cfg, fs) ==
    [cfg |-> cfg, fs |-> fs, state |-> "start", FrontendDir |-> <<>>]

\* ------------------------------------------------------------ wire frames
\* A raw frame as the client wrote it.  json: "invalid" is not JSON at all,
\* "badfield" is JSON whose field has the wrong JSON type (e.g. a number as
\* data, an unparsable timestamp), "ok" decodes into Message.
\* meta: "none" for an absent metadata object, else the dial target.
Frame(j, t, d, m) == [json |-> j, type |-> t, data |-> d, meta |-> m]

RawFrames ==
    {Frame("invalid", "", <<>>, "none"),
     Frame("badfield", MessageTypeTerminalInput, <<>>, "none"),
     Frame("ok", "bogus", <<>>, "none"),
     Frame("ok", MessageTypeResize, ResizeData, "none"),
     Frame("ok", MessageTypeRequestPrompt, <<>>, "none")}
    \cup {Frame("ok", MessageTypeConnectionRequest, <<>>, m) :
              m \in Targets \cup {"none"}}
    \cup {Frame("ok", MessageTypeTerminalInput, p, "none") : p \in Payloads}

IsResize(f) == f.json = "ok" /\ f.type = MessageTypeResize

\* ParseMessage with the Unmarshal error dropped
ParseMessageIgnoringError(f) ==
    [msg |-> [type |-> f.type, data |-> f.data, meta |-> f.meta],
     err |-> FALSE]

\* ParseMessage: json.Unmarshal into a zero Message; the pointer is returned
\* together with the error.  A syntax error leaves the Message zero; a field
\* error leaves the other fields populated.
ParseMessage(f) ==
    CASE f.json = "invalid" ->
            [msg |-> [type |-> "", data |-> <<>>, meta |-> "none"],
             err |-> TRUE]
      [] f.json = "badfield" ->
            [msg |-> [type |-> f.type, data |-> <<>>, meta |-> f.meta],
             err |-> TRUE]
      [] OTHER ->
            [msg |-> [type |-> f.type, data |-> f.data, meta |-> f.meta],
             err |-> FALSE]

\* ------------------------------------------------------------------ state
VARIABLES
    pc,          \* handler position: "wait", "read", "dial", "done"
    ip,          \* caller address of the upgrade request
    key,         \* API key presented with the upgrade request
    inbox,       \* frames written by the client, not yet read
    nframes,     \* frames the client has written
    peerClosed,  \* the client closed its end / the network dropped
    srvClosed,   \* the server closed the websocket
    sent,        \* messages WriteMessage delivered to the transport
    shell,       \* ShellConnection state: "None" before NewShellConnection
    target,      \* metadata of the Connect in progress
    connects,    \* Connect calls that returned nil
    dials,       \* remote dials started
    shellIn,     \* payloads written to the remote shell's stdin
    produced,    \* chunks the remote shell wrote
    eof,         \* the remote shell stream ended
    released,    \* times the remote connection handle was released
    sessions,    \* ShellConnection objects created for the connection
    connectCalls, \* calls of shell.Connect
    pty,         \* geometry <<cols, rows>> of the remote PTY, <<>> if none
    earlyResize, \* a resize frame was handled before the session was Active
    windowCount, \* frames read from the connection in the current rate window
    timedOut,    \* a Connect of the connection ended by its dial timeout
    payload,     \* the output string handed to NewTerminalOutput
    outMsg,      \* the message NewTerminalOutput built from payload
    app,         \* the WebSSHApp object of the page
    browser,     \* the page's window: location, storage, websocket, events
    srv,         \* the server process: main, the goroutine of Start
    boot,        \* server.New: the configuration given, the file system, the result
    sim          \* the simulated ShellSession and what it wrote

vars == <<pc, ip, key, inbox, nframes, peerClosed, srvClosed, sent, shell,
          target, connects, dials, shellIn, produced, eof, released,
          sessions, connectCalls, pty, earlyResize, windowCount, timedOut,
          payload, outMsg, app, browser, srv, boot, sim>>

InitHandler ==
    /\ pc = [c \in Conns |-> "wait"]
    /\ ip = [c \in Conns |-> "10.0.0.1"]
    /\ key = [c \in Conns |-> "k-wrong"]
    /\ inbox = [c \in Conns |-> <<>>]
    /\ nframes = [c \in Conns |-> 0]
    /\ peerClosed = [c \in Conns |-> FALSE]
    /\ srvClosed = [c \in Conns |-> FALSE]
    /\ sent = [c \in Conns |-> <<>>]
    /\ shell = [c \in Conns |-> "None"]
    /\ target = [c \in Conns |-> "none"]
    /\ connects = [c \in Conns |-> 0]
    /\ dials = [c \in Conns |-> 0]
    /\ shellIn = [c \in Conns |-> <<>>]
    /\ produced = [c \in Conns |-> <<>>]
    /\ eof = [c \in Conns |-> FALSE]
    /\ released = [c \in Conns |-> 0]
    /\ sessions = [c \in Conns |-> 0]
    /\ connectCalls = [c \in Conns |-> 0]
    /\ pty = [c \in Conns |-> <<>>]
    /\ earlyResize = [c \in Conns |-> FALSE]
    /\ windowCount = [c \in Conns |-> 0]
    /\ timedOut = [c \in Conns |-> FALSE]

Init ==
    /\ InitHandler
    /\ payload = <<>>
    /\ outMsg = NoMessage
    /\ app = NewWebSSHApp
    /\ browser = NewBrowser(Localhost, NoKey)
    /\ srv = NewServer
    /\ boot = NewBoot(DefaultConfig, {BuiltDefaultDir})
    /\ sim = NewShellSession

\* conn.WriteMessage: fails on a websocket the server has closed, may fail
\* once the peer is gone
WriteOutcomes(c) ==
    IF srvClosed[c] THEN {FALSE}
    ELSE IF peerClosed[c] THEN {TRUE, FALSE}
    ELSE {TRUE}

WriteMessage(c, m, ok) == IF ok THEN Append(sent[c], m) ELSE sent[c]

\* ------------------------------------------------- Connection.HandleWs
\* the greeting written right after the upgrade
EstablishedMessage ==
    NewConnectionStateMessage(ConnectionStateConnected,
                              <<"WebSocket connection established">>)

\* the reply to a frame ParseMessage rejects
InvalidFormatMessage == NewSystemMessage(<<"Invalid message format">>)

\* the reply when handleConnectionRequest returns an error
RequestFailedMessage ==
    NewSystemMessage(<<"Failed to handle connection request">>)

\* the reply handleConnectionRequest writes after shell.Connect returned nil
ShellConnectedMessage ==
    NewConnectionStateMessage(ConnectionStateConnected,
                              <<"Shell session connected">>)

\* upgrader.Upgrade, NewShellConnection, the greeting; the handler then
\* blocks in ReadMessage.  A failed upgrade returns at once.
Upgrade(c) ==
    /\ pc[c] = "wait"
    /\ \E i \in IPs, k \in Keys, ok \in BOOLEAN :
        /\ ip' = [ip EXCEPT ![c] = i]
        /\ key' = [key EXCEPT ![c] = k]
        /\ IF ok
             THEN /\ pc' = [pc EXCEPT ![c] = "read"]
                  /\ shell' = [shell EXCEPT ![c] = "Idle"]
                  /\ sessions' = [sessions EXCEPT ![c] = @ + 1]
                  /\ sent' = [sent EXCEPT ![c] =
                                  WriteMessage(c, EstablishedMessage, TRUE)]
             ELSE /\ pc' = [pc EXCEPT ![c] = "done"]
                  /\ UNCHANGED <<shell, sessions, sent>>
    /\ UNCHANGED <<inbox, nframes, peerClosed, srvClosed, target, connects,
                   dials, shellIn, produced, eof, released, connectCalls,
                   pty, earlyResize, windowCount, timedOut, payload, outMsg, app, browser, srv, boot, sim>>

\* the client writes one frame
ClientSend(c) ==
    /\ pc[c] \in {"read", "dial"}
    /\ ~peerClosed[c] /\ ~srvClosed[c]
    /\ Len(inbox[c]) < MaxInbox
    /\ nframes[c] < MaxFrames
    /\ \E f \in RawFrames : inbox' = [inbox EXCEPT ![c] = Append(@, f)]
    /\ nframes' = [nframes EXCEPT ![c] = @ + 1]
    /\ UNCHANGED <<pc, ip, key, peerClosed, srvClosed, sent, shell, target,
                   connects, dials, shellIn, produced, eof, released,
                   sessions,
                   connectCalls,
                   pty, earlyResize, windowCount, timedOut, payload, outMsg, app, browser, srv, boot, sim>>

\* the client closes the websocket, or the network drops
ClientClose(c) ==
    /\ pc[c] \in {"read", "dial"}
    /\ ~peerClosed[c]
    /\ peerClosed' = [peerClosed EXCEPT ![c] = TRUE]
    /\ UNCHANGED <<pc, ip, key, inbox, nframes, srvClosed, sent, shell,
                   target, connects, dials, shellIn, produced, eof, released,
                   sessions,
                   connectCalls,
                   pty, earlyResize, windowCount, timedOut, payload, outMsg, app, browser, srv, boot, sim>>

\* shell.Connect refuses a session that is not Idle (the transition table
\* has Connecting only after Idle)
ConnectAllowed(c) == shell[c] = "Idle"

\* the switch on msg.Type: TRUE for the one case the handler has
IsConnectionRequest(msg) == msg.type = MessageTypeConnectionRequest

\* what the handler does to the remote shell's stdin for a message that
\* reaches the default branch of the switch: nothing
DefaultBranchStdin(c, msg) == shellIn[c]

\* what the handler writes to the client for a message that reaches the
\* default branch of the switch: nothing (it only logs)
DefaultBranchSent(c, msg) == sent[c]

\* a default branch that applies a resize frame whatever the session state
DefaultBranchPtyResizing(c, msg) ==
    IF msg.type = MessageTypeResize THEN msg.data ELSE pty[c]

\* what the handler does to the remote PTY for a message that reaches the
\* default branch of the switch: nothing
DefaultBranchPty(c, msg) == pty[c]

\* a handler that makes a ShellConnection for every request
SessionsAfterRequestNew(c) == sessions[c] + 1

\* handleConnectionRequest works on the one ShellConnection made before
\* the loop: a request creates no session object
SessionsAfterRequest(c) == sessions[c]

\* a handleConnectionRequest without the nil check of the metadata
MetadataMissingNever(msg) == FALSE

\* handleConnectionRequest: msg.Metadata == nil
MetadataMissing(msg) == msg.meta = "none"

\* a loop that hands each request to a goroutine and reads on
ReadyToReadConcurrent(c) == pc[c] \in {"read", "dial"}

\* ReadMessage is called at the top of the for loop only, after the switch
\* of the previous iteration (handleConnectionRequest included) has returned
ReadyToRead(c) == pc[c] = "read"

\* one iteration of the read loop: ReadMessage returned a frame
HandleFrame(c) ==
    /\ ReadyToRead(c)
    /\ inbox[c] # <<>>
    /\ ~srvClosed[c]
    /\ inbox' = [inbox EXCEPT ![c] = Tail(@)]
    /\ LET r == ParseMessage(Head(inbox[c]))
           msg == r.msg
       IN  IF r.err
             THEN /\ \E ok \in WriteOutcomes(c) :
                        sent' = [sent EXCEPT ![c] =
                                    WriteMessage(c, InvalidFormatMessage, ok)]
                  /\ UNCHANGED <<pc, shell, target, dials, shellIn,
                                 sessions, connectCalls, pty>>
           ELSE IF IsConnectionRequest(msg)
             THEN /\ sessions' = [sessions EXCEPT ![c] = SessionsAfterRequest(c)]
                  /\ UNCHANGED pty
                  /\ connectCalls' = [connectCalls EXCEPT ![c] =
                                         IF ~MetadataMissing(msg) THEN @ + 1 ELSE @]
                  /\ IF ~MetadataMissing(msg) /\ ConnectAllowed(c)
                       THEN \* shell.Connect(msg.Metadata) starts to dial
                            /\ pc' = [pc EXCEPT ![c] = "dial"]
                            /\ shell' = [shell EXCEPT ![c] = "Connecting"]
                            /\ target' = [target EXCEPT ![c] = msg.meta]
                            /\ dials' = [dials EXCEPT ![c] = @ + 1]
                            /\ UNCHANGED <<sent, shellIn>>
                       ELSE \* ErrInvalidMessageFormat, or Connect refused
                            /\ \E ok \in WriteOutcomes(c) :
                                  sent' = [sent EXCEPT ![c] =
                                      WriteMessage(c, RequestFailedMessage, ok)]
                            /\ UNCHANGED <<pc, shell, target, dials, shellIn>>
           ELSE /\ shellIn' = [shellIn EXCEPT ![c] = DefaultBranchStdin(c, msg)]
                /\ sent' = [sent EXCEPT ![c] = DefaultBranchSent(c, msg)]
                /\ pty' = [pty EXCEPT ![c] = DefaultBranchPty(c, msg)]
                /\ UNCHANGED <<pc, shell, target, dials, sessions,
                               connectCalls>>
    /\ earlyResize' = [earlyResize EXCEPT ![c] =
                          @ \/ (IsResize(Head(inbox[c])) /\ shell[c] # "Active")]
    /\ windowCount' = [windowCount EXCEPT ![c] = @ + 1]
    /\ UNCHANGED <<ip, key, nframes, peerClosed, srvClosed, connects,
                   produced, eof, released, timedOut, payload, outMsg, app, browser, srv, boot, sim>>

\* handleConnectionRequest without the connected notification
ConnectReplyWithoutNotice(err) == RequestFailedMessage

\* handleConnectionRequest writing connected before looking at the error
ConnectReplyAlwaysConnected(err) == ShellConnectedMessage

\* what handleConnectionRequest writes once shell.Connect has returned
ConnectReply(err) ==
    IF err THEN RequestFailedMessage ELSE ShellConnectedMessage

\* a Connect whose dial waits for the remote end without limit
DialReturnsWhenAnswered(c) == target[c] # "slow"

\* the dial and handshake of Connect are bounded by the dial timeout: Connect
\* returns for every target, for one that never answers when the timeout
\* expires
DialReturns(c) == TRUE

\* shell.Connect returns: nil for a target that accepts, an error otherwise;
\* handleConnectionRequest then writes its reply and the loop continues.
DialResult(c) ==
    /\ pc[c] = "dial"
    /\ DialReturns(c)
    /\ timedOut' = [timedOut EXCEPT ![c] = @ \/ target[c] = "slow"]
    /\ LET err == target[c] # "good"
       IN  /\ shell' = [shell EXCEPT ![c] = IF err THEN "Failed" ELSE "Active"]
           /\ pty' = [pty EXCEPT ![c] = IF err THEN @ ELSE InitialGeometry]
           /\ connects' = [connects EXCEPT ![c] = IF err THEN @ ELSE @ + 1]
           /\ \E ok \in WriteOutcomes(c) :
                 sent' = [sent EXCEPT ![c] =
                             WriteMessage(c, ConnectReply(err), ok)]
    /\ pc' = [pc EXCEPT ![c] = "read"]
    /\ target' = [target EXCEPT ![c] = "none"]
    /\ UNCHANGED <<ip, key, inbox, nframes, peerClosed, srvClosed, dials,
                   shellIn, produced, eof, released, sessions,
                   connectCalls,
                   earlyResize, windowCount, payload, outMsg, app, browser, srv, boot, sim>>

\* a return path that releases the remote handle itself, unguarded
ReleasedOnReturnAgain(c) == released[c] + 1

\* the handler's return path: the deferred conn.Close() and nothing else;
\* the remote connection handle is left as it is
ReleasedOnReturn(c) == released[c]

\* a loop that goes on reading after a read error
AfterReadErrorContinue == "read"

\* where the handler is after a read error: it has returned
AfterReadError == "done"

\* ReadMessage returned an error: log, return, deferred conn.Close()
ReadError(c) ==
    /\ pc[c] = "read"
    /\ peerClosed[c] \/ srvClosed[c]
    /\ pc' = [pc EXCEPT ![c] = AfterReadError]
    /\ srvClosed' = [srvClosed EXCEPT ![c] = TRUE]
    /\ released' = [released EXCEPT ![c] = ReleasedOnReturn(c)]
    /\ UNCHANGED <<ip, key, inbox, nframes, peerClosed, sent, shell, target,
                   connects, dials, shellIn, produced, eof, sessions,
                   connectCalls,
                   pty, earlyResize, windowCount, timedOut, payload, outMsg, app, browser, srv, boot, sim>>

\* --------------------------------------------- ShellConnection (Bridge)
\* Session teardown: the handle is released unless the session is already
\* closed
CloseReleased(c) == IF shell[c] = "Closed" THEN released[c] ELSE released[c] + 1

\* the notification the outbound pump writes when the shell stream ends
DisconnectedMessage ==
    NewConnectionStateMessage(ConnectionStateDisconnected,
                              <<"Shell session closed">>)

\* outbound pump: the remote shell wrote a chunk; it is wrapped as
\* terminal_output and written to the websocket.  A failed write is a
\* terminal error for the pump and tears the session down.
PumpOutput(c) ==
    /\ shell[c] = "Active"
    /\ ~eof[c]
    /\ Len(produced[c]) < MaxOut
    /\ \E b \in OutChunks, ok \in WriteOutcomes(c) :
        /\ produced' = [produced EXCEPT ![c] = Append(@, b)]
        /\ sent' = [sent EXCEPT ![c] = WriteMessage(c, NewTerminalOutput(b), ok)]
        /\ IF ok
             THEN UNCHANGED <<shell, released, srvClosed>>
             ELSE /\ released' = [released EXCEPT ![c] = CloseReleased(c)]
                  /\ shell' = [shell EXCEPT ![c] = "Closed"]
                  /\ srvClosed' = [srvClosed EXCEPT ![c] = TRUE]
    /\ UNCHANGED <<pc, ip, key, inbox, nframes, peerClosed, target, connects,
                   dials, shellIn, eof, sessions,
                   connectCalls,
                   pty, earlyResize, windowCount, timedOut, payload, outMsg, app, browser, srv, boot, sim>>

\* the remote shell's output stream ends (exit, EOF, I/O error)
ShellEOF(c) ==
    /\ shell[c] = "Active"
    /\ ~eof[c]
    /\ eof' = [eof EXCEPT ![c] = TRUE]
    /\ UNCHANGED <<pc, ip, key, inbox, nframes, peerClosed, srvClosed, sent,
                   shell, target, connects, dials, shellIn, produced,
                   released, sessions,
                   connectCalls,
                   pty, earlyResize, windowCount, timedOut, payload, outMsg, app, browser, srv, boot, sim>>

\* outbound pump: the read from the shell stream returned EOF or an error:
\* notify the client, close the session, close the transport
PumpTeardown(c) ==
    /\ shell[c] = "Active"
    /\ eof[c]
    /\ \E ok \in WriteOutcomes(c) :
          sent' = [sent EXCEPT ![c] = WriteMessage(c, DisconnectedMessage, ok)]
    /\ released' = [released EXCEPT ![c] = CloseReleased(c)]
    /\ shell' = [shell EXCEPT ![c] = "Closed"]
    /\ srvClosed' = [srvClosed EXCEPT ![c] = TRUE]
    /\ UNCHANGED <<pc, ip, key, inbox, nframes, peerClosed, target, connects,
                   dials, shellIn, produced, eof, sessions,
                   connectCalls,
                   pty, earlyResize, windowCount, timedOut, payload, outMsg, app, browser, srv, boot, sim>>

Next ==
    \E c \in Conns :
        \/ Upgrade(c)
        \/ ClientSend(c)
        \/ ClientClose(c)
        \/ HandleFrame(c)
        \/ DialResult(c)
        \/ ReadError(c)
        \/ PumpOutput(c)
        \/ ShellEOF(c)
        \/ PumpTeardown(c)

Spec == Init /\ [][Next]_vars

\* the rate-limit window of a connection elapses
WindowElapses(c) ==
    /\ pc[c] \in {"read", "dial"}
    /\ windowCount[c] > 0
    /\ windowCount' = [windowCount EXCEPT ![c] = 0]
    /\ UNCHANGED <<pc, ip, key, inbox, nframes, peerClosed, srvClosed, sent,
                   shell, target, connects, dials, shellIn, produced, eof,
                   released, sessions, connectCalls, pty, earlyResize,
                   timedOut, payload, outMsg, app, browser, srv, boot, sim>>

NextClock == Next \/ \E c \in Conns : WindowElapses(c)

\* the handler with the passing of rate-limit windows made visible
SpecClock == Init /\ [][NextClock]_vars

\* The handler goroutine and the pump goroutine always get to run; the
\* client and the remote shell are under no obligation.
FairSpec ==
    /\ Spec
    /\ \A c \in Conns :
        /\ WF_vars(HandleFrame(c))
        /\ WF_vars(DialResult(c))
        /\ WF_vars(ReadError(c))
        /\ WF_vars(PumpTeardown(c))

\* the message constructor on its own: sendOutput / executeCommand build a
\* terminal_output message from an output string
BuildOutput ==
    /\ outMsg = NoMessage
    /\ outMsg' = NewTerminalOutput(payload)
    /\ UNCHANGED <<pc, ip, key, inbox, nframes, peerClosed, srvClosed, sent,
                   shell, target, connects, dials, shellIn, produced, eof,
                   released, sessions, connectCalls, pty, earlyResize,
                   windowCount, timedOut, payload, app, browser, srv, boot, sim>>

InitAnsi ==
    /\ InitHandler
    /\ payload \in AnsiPayloads
    /\ outMsg = NoMessage
    /\ app = NewWebSSHApp
    /\ browser = NewBrowser(Localhost, NoKey)
    /\ srv = NewServer
    /\ boot = NewBoot(DefaultConfig, {BuiltDefaultDir})
    /\ sim = NewShellSession

NextAnsi == BuildOutput

SpecAnsi == InitAnsi /\ [][NextAnsi]_vars

\* ------------------------------------------------------ the page, app.js
handlerVars == <<pc, ip, key, inbox, nframes, peerClosed, srvClosed, sent,
                 shell, target, connects, dials, shellIn, produced, eof,
                 released, sessions, connectCalls, pty, earlyResize,
                 windowCount, timedOut, payload, outMsg>>

\* setAPIKey
setAPIKey(a, b, k) ==
    [a |-> [a EXCEPT !.apiKey = k],
     b |-> IF WebSSHConfig(b.hostname).auth.useSessionStorage
             THEN [b EXCEPT !.sessionStorage = k] ELSE b]

\* getAPIKey
getAPIKey(a, b) ==
    IF WebSSHConfig(b.hostname).auth.useSessionStorage
      THEN (IF a.apiKey # NoKey THEN a.apiKey ELSE b.sessionStorage)
      ELSE a.apiKey

\* clearAPIKey
clearAPIKey(a, b) ==
    [a |-> [a EXCEPT !.apiKey = NoKey],
     b |-> IF WebSSHConfig(b.hostname).auth.useSessionStorage
             THEN [b EXCEPT !.sessionStorage = NoKey] ELSE b]

\* bypassAuthForm: hide the form, schedule connectWebSocket
bypassAuthForm(a, b) ==
    [a |-> [a EXCEPT !.authBypassed = TRUE],
     b |-> [b EXCEPT !.ws = IF @ = "none" THEN "scheduled" ELSE @]]

\* init: the setup calls, then checkURLAPIKey
AppInit ==
    /\ browser.page = "loading"
    /\ LET k == browser.urlApiKey
           b0 == [browser EXCEPT !.page = "ready", !.lastEvent = "load"]
       IN  IF /\ WebSSHConfig(browser.hostname).auth.enableURLParameter
              /\ k # NoKey
              /\ dummyValidateAPIKey(k)
             THEN LET st == setAPIKey(app, b0, k)
                      by == bypassAuthForm(st.a, st.b)
                  IN  /\ app' = by.a
                      /\ browser' = [by.b EXCEPT !.urlBypassed = TRUE,
                                                 !.urlApiKey = NoKey]
             ELSE /\ app' = app
                  /\ browser' = b0
    /\ UNCHANGED <<handlerVars, boot, sim, srv>>

\* the form is submitted to /validate-key: htmx:beforeRequest
SubmitKey ==
    /\ browser.page = "ready"
    /\ ~app.authBypassed
    /\ \E typed \in FormKeys :
        LET b0 == [browser EXCEPT !.lastEvent = "submit"]
        IN  IF WebSSHConfig(browser.hostname).auth.enableDummyAuth
              THEN \* event.preventDefault(); handleDummyAuth(event)
                   LET apiKey == sanitizeInput(typed)
                       b1 == [b0 EXCEPT !.dummyAuthRan = TRUE]
                   IN  IF dummyValidateAPIKey(apiKey)
                         THEN LET st == setAPIKey(app, b1, apiKey)
                                  by == bypassAuthForm(st.a, st.b)
                              IN  app' = by.a /\ browser' = by.b
                         ELSE app' = app /\ browser' = b1
              ELSE \* the request goes to the server, which has no such
                   \* route: handleAuthResponse shows the failure
                   app' = app /\ browser' = b0
    /\ UNCHANGED <<handlerVars, boot, sim, srv>>

\* the timer of bypassAuthForm fires: connectWebSocket
ConnectWebSocket ==
    /\ browser.page = "ready"
    /\ browser.ws = "scheduled"
    /\ browser' = [browser EXCEPT !.ws = "connecting", !.lastEvent = "timer"]
    /\ UNCHANGED <<handlerVars, boot, sim, app, srv>>

\* directWebSocket.onopen; initializeTerminal sets the timer of
\* requestInitialPrompt
WsOpen ==
    /\ browser.page = "ready"
    /\ browser.ws = "connecting"
    /\ srv.serve = "serving"
    /\ browser' = [browser EXCEPT !.ws = "open", !.lastEvent = "open",
                                  !.promptTimer = TRUE]
    /\ app' = [app EXCEPT !.connectionState = "connected"]
    /\ UNCHANGED <<handlerVars, boot, sim, srv>>

\* directWebSocket.onclose (after onerror, if any): the status is updated
\* and nothing else is done
WsClose ==
    /\ browser.page = "ready"
    /\ browser.ws \in {"connecting", "open"}
    /\ browser' = [browser EXCEPT
                      !.ws = IF @ = "open" THEN "lost" ELSE "failed",
                      !.lastEvent = "close"]
    /\ app' = [app EXCEPT !.connectionState = "disconnected"]
    /\ UNCHANGED <<handlerVars, boot, sim, srv>>

\* a guard that lets a socket still connecting through
SocketOpenOrConnecting(b) == b.ws \in {"open", "connecting"}

\* directWebSocket.readyState === WebSocket.OPEN
SocketOpen(b) == b.ws = "open"

\* send of a frame of the given type behind the readyState guard
SendIfOpen(b, type) ==
    IF SocketOpen(b)
      THEN [b EXCEPT !.wsSent = Append(@, type)]
      ELSE [b EXCEPT !.dropped = TRUE]

\* terminal.onData: handleTerminalInput, then sendToBackend
TerminalInput ==
    /\ browser.page = "ready"
    /\ Len(browser.wsSent) < MaxSent
    /\ \E data \in {<<"l">>, <<ESC, "[", "A">>} :
        LET b0 == [browser EXCEPT !.lastEvent = "input"]
        IN  browser' = IF isNavigationKey(data)
                         THEN b0
                         ELSE SendIfOpen(b0, MessageTypeTerminalInput)
    /\ UNCHANGED <<handlerVars, boot, sim, app, srv>>

\* terminal.onResize: notifyTerminalResize
TerminalResize ==
    /\ browser.page = "ready"
    /\ Len(browser.wsSent) < MaxSent
    /\ browser' = SendIfOpen([browser EXCEPT !.lastEvent = "resize"],
                             MessageTypeResize)
    /\ UNCHANGED <<handlerVars, boot, sim, app, srv>>

\* the timer of initializeTerminal fires: requestInitialPrompt
RequestInitialPrompt ==
    /\ browser.page = "ready"
    /\ browser.promptTimer
    /\ Len(browser.wsSent) < MaxSent
    /\ LET b0 == [browser EXCEPT !.lastEvent = "prompt",
                                 !.promptTimer = FALSE]
       IN  browser' = IF SocketOpen(b0)
                        THEN [b0 EXCEPT !.wsSent =
                                 Append(@, MessageTypeRequestPrompt)]
                        ELSE b0
    /\ UNCHANGED <<handlerVars, boot, sim, app, srv>>

\* handleCriticalError
handleCriticalError(a, b) ==
    LET cl == clearAPIKey(a, b)
    IN  [a |-> [cl.a EXCEPT !.errorCount = @ + 1], b |-> cl.b]

\* the window error listener: event.error.message is evaluated for the
\* call; with event.error null (a muted script error, throw null) that
\* throws inside the listener and handleCriticalError is not called
WindowError ==
    /\ browser.page = "ready"
    /\ app.errorCount < MaxErrors
    /\ \E error \in {"Error", "null"} :
        LET b0 == [browser EXCEPT !.lastEvent = "error"]
        IN  IF error = "null"
              THEN app' = app /\ browser' = b0
              ELSE LET h == handleCriticalError(app, b0)
                   IN  app' = h.a /\ browser' = h.b
    /\ UNCHANGED <<handlerVars, boot, sim, srv>>

\* the unhandledrejection listener
UnhandledRejection ==
    /\ browser.page = "ready"
    /\ app.errorCount < MaxErrors
    /\ LET h == handleCriticalError(
                    app, [browser EXCEPT !.lastEvent = "unhandledrejection"])
       IN  app' = h.a /\ browser' = h.b
    /\ UNCHANGED <<handlerVars, boot, sim, srv>>

\* the beforeunload listener of setupSecureStorage; the page goes away
BeforeUnload ==
    /\ browser.page = "ready"
    /\ LET b0 == [browser EXCEPT !.page = "unloaded",
                                 !.lastEvent = "beforeunload",
                                 !.ws = IF @ \in {"connecting", "open"}
                                          THEN "failed" ELSE @]
       IN  IF WebSSHConfig(browser.hostname).auth.clearOnUnload
             THEN LET cl == clearAPIKey(app, b0)
                  IN  app' = cl.a /\ browser' = cl.b
             ELSE app' = app /\ browser' = b0
    /\ UNCHANGED <<handlerVars, boot, sim, srv>>

\* ------------------------------------------- the process, server.go, main.go
\* s.done is made without a buffer: the send completes only with main
\* receiving in its select
SendCompletes(s) == s.main = "select"

\* SIGINT or SIGTERM arrives
Signal ==
    /\ srv.main = "select"
    /\ ~srv.quit
    /\ srv' = [srv EXCEPT !.quit = TRUE]
    /\ UNCHANGED <<handlerVars, boot, sim, app, browser>>

\* main's select takes the quit branch
MainTakesQuit ==
    /\ srv.main = "select"
    /\ srv.quit
    /\ srv' = [srv EXCEPT !.main = "shutdown"]
    /\ UNCHANGED <<handlerVars, boot, sim, app, browser>>

\* srv.Shutdown: the http server stops serving, ListenAndServe returns
\* ErrServerClosed in the goroutine of Start; Shutdown returns to main
Shutdown ==
    /\ srv.main = "shutdown"
    /\ srv' = [srv EXCEPT !.main = "returned",
                          !.serve = IF @ = "serving" THEN "closed" ELSE @]
    /\ UNCHANGED <<handlerVars, boot, sim, app, browser>>

\* the goroutine of Start reaches s.done <- struct{}{}
GoroutineSend ==
    /\ srv.serve = "closed"
    /\ srv' = [srv EXCEPT
                  !.serve = IF SendCompletes(srv) THEN "stopped" ELSE "blocked",
                  !.main = IF SendCompletes(srv) THEN "returned" ELSE @]
    /\ UNCHANGED <<handlerVars, boot, sim, app, browser>>

\* main returns: the process ends, with it every goroutine and connection
ProcessExit ==
    /\ srv.main = "returned"
    /\ srv' = [srv EXCEPT !.main = "exited",
                          !.serve = IF @ = "stopped" THEN @ ELSE "killed"]
    /\ browser' = [browser EXCEPT
                      !.ws = IF @ = "open" THEN "lost"
                             ELSE IF @ = "connecting" THEN "failed" ELSE @]
    /\ app' = [app EXCEPT !.connectionState =
                  IF browser.ws \in {"open", "connecting"}
                    THEN "disconnected" ELSE @]
    /\ UNCHANGED <<handlerVars, boot, sim>>

InitFront ==
    /\ InitHandler
    /\ payload = <<>>
    /\ outMsg = NoMessage
    /\ app = NewWebSSHApp
    /\ browser \in {NewBrowser(h, u) : h \in Hostnames, u \in UrlKeys}
    /\ srv = NewServer
    /\ boot = NewBoot(DefaultConfig, {BuiltDefaultDir})
    /\ sim = NewShellSession

NextFront ==
    \/ AppInit
    \/ SubmitKey
    \/ ConnectWebSocket
    \/ WsOpen
    \/ WsClose
    \/ WindowError
    \/ UnhandledRejection
    \/ BeforeUnload
    \/ TerminalInput
    \/ TerminalResize
    \/ RequestInitialPrompt
    \/ Signal
    \/ MainTakesQuit
    \/ Shutdown
    \/ GoroutineSend
    \/ ProcessExit

\* the page and the server process it talks to
SpecFront == InitFront /\ [][NextFront]_vars

\* timers fire, goroutines run and the process ends; events of the user, the
\* network and the operating system may or may not come
FairSpecFront ==
    /\ SpecFront
    /\ WF_vars(AppInit)
    /\ WF_vars(ConnectWebSocket)
    /\ WF_vars(MainTakesQuit)
    /\ WF_vars(Shutdown)
    /\ WF_vars(GoroutineSend)
    /\ WF_vars(ProcessExit)

\* ------------------------------------------- the simulated shell, part_003
\* the byte value of a character of the model
Code(ch) ==
    CASE ch = BS  -> 8
      [] ch = TAB -> 9
      [] ch = LF  -> 10
      [] ch = CR  -> 13
      [] ch = ESC -> 27
      [] ch = " " -> 32
      [] ch = "A" -> 65
      [] ch = "[" -> 91
      [] ch = "l" -> 108
      [] ch = "s" -> 115
      [] ch = DEL -> 127
      [] OTHER    -> 97

\* terminal_input payloads a client sends to the simulated shell
SimPayloads ==
    {<<CR>>, <<LF>>, <<DEL>>, <<"l">>, <<"s">>, <<" ">>, <<"l", "s">>,
     <<CR, LF>>, <<TAB>>, <<ESC, "[", "A">>, <<>>}

\* the keys the mobile keyboard handles in its keydown listener
MobileKeys == {"Enter", "Backspace", "Tab", "Escape", "ArrowUp"}

\* MobileKeyboardHandler keydown: what sendInput is called with
MobileKeyData(k) ==
    CASE k = "Enter"     -> <<CR>>
      [] k = "Backspace" -> <<BS>>
      [] k = "Tab"       -> <<TAB>>
      [] k = "Escape"    -> <<ESC>>
      [] OTHER           -> <<ESC, "[", "A">>

ShellPrompt == <<"user@webssh:~$ ">>
EraseSequence == <<BS, " ", BS>>

IsSpace(ch) == ch \in {" ", TAB, LF, CR}

\* strings.TrimSpace
RECURSIVE TrimLeft(_)
TrimLeft(str) ==
    IF str # <<>> /\ IsSpace(Head(str)) THEN TrimLeft(Tail(str)) ELSE str

RECURSIVE TrimRight(_)
TrimRight(str) ==
    IF str # <<>> /\ IsSpace(str[Len(str)])
      THEN TrimRight(SubSeq(str, 1, Len(str) - 1)) ELSE str

TrimSpace(str) == TrimRight(TrimLeft(str))

EchoPrefix == <<"e", "c", "h", "o", " ">>

\* strings.HasPrefix
HasPrefix(str, prefix) ==
    Len(str) >= Len(prefix) /\ SubSeq(str, 1, Len(prefix)) = prefix

\* executeCommand: the output for the trimmed command, <<>> for none
CommandOutput(cmd) ==
    CASE cmd = <<>> -> <<>>
      [] cmd = <<"l", "s">> ->
            <<"Desktop  Documents  Downloads  Pictures  Videos", CR, LF>>
      [] cmd = <<"p", "w", "d">> -> <<"/home/user", CR, LF>>
      [] HasPrefix(cmd, EchoPrefix) ->
            SubSeq(cmd, Len(EchoPrefix) + 1, Len(cmd)) \o <<CR, LF>>
      [] cmd = <<"d", "a", "t", "e">> ->
            <<"Mon Aug 12 14:00:00 UTC 2025", CR, LF>>
      [] cmd = <<"w", "h", "o", "a", "m", "i">> -> <<"user", CR, LF>>
      [] cmd = <<"c", "l", "e", "a", "r">> -> ClearScreen
      [] OTHER -> cmd \o <<": command not found", CR, LF>>

\* conn.WriteMessage of a terminal_output built from data
sendOutput(s, data) == [s EXCEPT !.out = Append(@, NewTerminalOutput(data))]

executeCommand(s, cmd) ==
    IF CommandOutput(cmd) # <<>> THEN sendOutput(s, CommandOutput(cmd)) ELSE s

showPrompt(s) == sendOutput(s, ShellPrompt)

\* a backspace handler that echoes the erase sequence whatever the buffer
handleBackspaceAlwaysEcho(s) ==
    sendOutput([s EXCEPT !.currentInput =
                   IF @ = <<>> THEN @ ELSE SubSeq(@, 1, Len(@) - 1)],
               EraseSequence)

\* handleBackspace
handleBackspace(s) ==
    IF Len(s.currentInput) > 0
      THEN sendOutput([s EXCEPT !.currentInput = SubSeq(@, 1, Len(@) - 1)],
                      EraseSequence)
      ELSE s

\* a processCommand that shows the prompt before it runs the command
processCommandPromptFirst(s) ==
    LET cmd == TrimSpace(s.currentInput)
        s1 == sendOutput(s, <<CR, LF>>)
        s2 == showPrompt(s1)
        s3 == executeCommand(s2, cmd)
    IN  [s3 EXCEPT !.currentInput = <<>>]

\* processCommand: newline, the command's output, buffer cleared, prompt
processCommand(s) ==
    LET cmd == TrimSpace(s.currentInput)
        s1 == sendOutput(s, <<CR, LF>>)
        s2 == executeCommand(s1, cmd)
        s3 == [s2 EXCEPT !.currentInput = <<>>]
    IN  showPrompt(s3)

\* a check of the length alone
IsPrintableAnyByte(input) == Len(input) = 1

\* a check of the first byte alone
IsPrintableFirstByte(input) ==
    Len(input) >= 1 /\ Code(input[1]) >= 32 /\ Code(input[1]) <= 126

\* the default branch of HandleInput: one byte between 32 and 126
IsPrintable(input) ==
    Len(input) = 1 /\ Code(input[1]) >= 32 /\ Code(input[1]) <= 126

\* HandleInput
HandleInput(s, input) ==
    CASE input \in {<<CR>>, <<LF>>} -> processCommand(s)
      [] input = <<DEL>> -> handleBackspace(s)
      [] OTHER -> IF IsPrintable(input)
                    THEN sendOutput([s EXCEPT !.currentInput = @ \o input],
                                    input)
                    ELSE s

\* HandlerDeps.HandleWs read a terminal_input frame
SimTerminalInput ==
    /\ sim.handled < MaxSimInputs
    /\ \E input \in SimPayloads :
          sim' = [HandleInput(sim, input) EXCEPT !.handled = @ + 1,
                                                 !.lastInput = input,
                                                 !.lastKey = "none"]
    /\ UNCHANGED <<handlerVars, app, browser, srv, boot>>

\* HandlerDeps.HandleWs read a request_prompt frame
SimRequestPrompt ==
    /\ sim.handled < MaxSimInputs
    /\ sim' = [showPrompt(sim) EXCEPT !.handled = @ + 1,
                                      !.lastInput = <<>>,
                                      !.lastKey = "prompt"]
    /\ UNCHANGED <<handlerVars, app, browser, srv, boot>>

\* a key of the mobile keyboard: sendInput, the terminal's input filter,
\* sendToBackend on an open socket, then HandleWs and HandleInput
SimMobileKey ==
    /\ sim.handled < MaxSimInputs
    /\ \E k \in MobileKeys :
        LET data == MobileKeyData(k)
            s1 == IF isNavigationKey(data) THEN sim ELSE HandleInput(sim, data)
        IN  sim' = [s1 EXCEPT !.handled = @ + 1,
                              !.lastInput = data,
                              !.lastKey = k]
    /\ UNCHANGED <<handlerVars, app, browser, srv, boot>>

InitSim ==
    /\ InitHandler
    /\ payload = <<>>
    /\ outMsg = NoMessage
    /\ app = NewWebSSHApp
    /\ browser = NewBrowser(Localhost, NoKey)
    /\ srv = NewServer
    /\ boot = NewBoot(DefaultConfig, {BuiltDefaultDir})
    /\ sim = NewShellSession

NextSim ==
    \/ SimTerminalInput
    \/ SimRequestPrompt
    \/ SimMobileKey

SpecSim == InitSim /\ [][NextSim]_vars

\* ------------------------------------------------- the start of the server
\* main calls server.New with the configuration
ServerNew ==
    /\ boot.state = "start"
    /\ LET r == New(boot.cfg, boot.fs)
       IN  boot' = [boot EXCEPT !.state = r.state,
                                !.FrontendDir = r.FrontendDir]
    /\ UNCHANGED <<handlerVars, app, browser, srv, sim>>

InitConfig ==
    /\ InitHandler
    /\ payload = <<>>
    /\ outMsg = NoMessage
    /\ app = NewWebSSHApp
    /\ browser = NewBrowser(Localhost, NoKey)
    /\ srv = NewServer
    /\ sim = NewShellSession
    /\ boot \in {NewBoot([Port |-> p, FrontendDir |-> d, ReadTimeout |-> rt,
                          WriteTimeout |-> wt, MaxConnections |-> mc], fs) :
                    p \in ConfigPorts, d \in ConfigDirs, rt \in ConfigTimeouts,
                    wt \in ConfigTimeouts, mc \in ConfigMaxConns,
                    fs \in FileSystems}

NextConfig == ServerNew

SpecConfig == InitConfig /\ [][NextConfig]_vars

\* ----------------------------------------------------------- properties
\* the step in which the handler of c takes the frame at the head of inbox
HandlesFrame(c) ==
    /\ pc[c] = "read"
    /\ inbox[c] # <<>>
    /\ inbox'[c] = Tail(inbox[c])

HeadFrame(c) == Head(inbox[c])

\* a frame json.Unmarshal cannot decode into a Message
Malformed(f) == f.json # "ok"

IsTerminalInput(f) == f.json = "ok" /\ f.type = MessageTypeTerminalInput

Count(seq, P(_)) == Cardinality({i \in DOMAIN seq : P(seq[i])})

IsConnected(m) ==
    m.type = MessageTypeConnectionState /\ m.state = ConnectionStateConnected

IsDisconnected(m) ==
    m.type = MessageTypeConnectionState /\ m.state = ConnectionStateDisconnected

IsTerminalOutput(m) == m.type = MessageTypeTerminalOutput

RECURSIVE Concat(_)
Concat(seqs) == IF seqs = <<>> THEN <<>> ELSE Head(seqs) \o Concat(Tail(seqs))

RECURSIVE OutputBytes(_)
\* the data of the terminal_output messages of a message sequence, in order
OutputBytes(msgs) ==
    IF msgs = <<>> THEN <<>>
    ELSE (IF IsTerminalOutput(Head(msgs)) THEN Head(msgs).data ELSE <<>>)
             \o OutputBytes(Tail(msgs))

\* C1: a terminal_input whose payload matches a CommandRule is never written
\* to the remote shell's stdin, is answered with exactly one terminal_error,
\* and leaves the connection open.
C1_BlockedInputRejected ==
    [][\A c \in Conns :
          (HandlesFrame(c) /\ IsTerminalInput(HeadFrame(c))
               /\ MatchesCommandRule(HeadFrame(c).data))
          => /\ shellIn'[c] = shellIn[c]
             /\ Len(sent'[c]) = Len(sent[c]) + 1
             /\ sent'[c][Len(sent'[c])].type = MessageTypeTerminalError
             /\ pc'[c] = "read"
             /\ ~srvClosed'[c]]_vars

\* C2: no Session object is ever created for a connection whose caller IP
\* has a block record.
C2_NoSessionForBlockedIP ==
    \A c \in Conns : ip[c] \in BlockedIPs => sessions[c] = 0

\* C3: a connection that presented no valid API key never acquires a
\* Session and never causes a remote shell connect.
C3_NoSessionWithoutKey ==
    \A c \in Conns :
        key[c] # ValidKey => sessions[c] = 0 /\ connectCalls[c] = 0 /\ dials[c] = 0

C5_MalformedFrameDropped ==
    [][\A c \in Conns :
          (HandlesFrame(c) /\ Malformed(HeadFrame(c)))
          => /\ ParseMessage(HeadFrame(c)).err
             /\ pc'[c] = "read"
             /\ ~srvClosed'[c]
             /\ ~peerClosed[c] => sent'[c] = Append(sent[c], InvalidFormatMessage)
             /\ peerClosed[c] => sent'[c] \in {sent[c], Append(sent[c], InvalidFormatMessage)}
             /\ shell'[c] = shell[c]
             /\ shellIn'[c] = shellIn[c]
             /\ connectCalls'[c] = connectCalls[c]]_vars

\* a well-formed connection_request was processed after a malformed frame
\* had been answered
C5_Witness ==
    \E c \in Conns : \E i, j \in DOMAIN sent[c] :
        /\ i < j
        /\ sent[c][i] = InvalidFormatMessage
        /\ sent[c][j] = ShellConnectedMessage
        /\ ~srvClosed[c]

C7_ValidRequestConnects ==
    \A c \in Conns :
        (/\ pc[c] = "read" /\ inbox[c] # <<>>
         /\ HeadFrame(c) = Frame("ok", MessageTypeConnectionRequest, <<>>, "good")
         /\ shell[c] = "Idle"
         /\ ~peerClosed[c])
        ~> (\/ /\ shell[c] = "Active"
               /\ \E i \in DOMAIN sent[c] : sent[c][i] = ShellConnectedMessage
            \/ peerClosed[c])

C7_Witness ==
    \E c \in Conns :
        /\ shell[c] = "Active"
        /\ ~peerClosed[c]
        /\ sent[c][Len(sent[c])] = ShellConnectedMessage

\* C8 as stated: a connected message is sent only after a connection_request
\* has succeeded.
C8_ConnectedOnlyAfterConnect ==
    \A c \in Conns :
        Count(sent[c], IsConnected) > 0 => connects[c] > 0

\* C8 amended: the first message of a connection is the connected greeting of
\* the upgrade; every further connected message is the reply to a
\* connection_request whose Connect returned nil, at most one per success.
C8_ConnectedGreetingOrConnect ==
    \A c \in Conns :
        /\ sent[c] # <<>> => sent[c][1] = EstablishedMessage
        /\ \A i \in DOMAIN sent[c] :
              (i > 1 /\ IsConnected(sent[c][i])) => sent[c][i] = ShellConnectedMessage
        /\ Count(sent[c], IsConnected) <= (IF sessions[c] > 0 THEN 1 ELSE 0) + connects[c]
        /\ ~peerClosed[c] => Count(sent[c], IsConnected) = sessions[c] + connects[c]

C8_Witness ==
    \E c \in Conns :
        /\ connects[c] = 1
        /\ Count(sent[c], IsConnected) = 2

\* C9: on an Active session a terminal_input payload is written to the
\* shell, and the terminal_output data sent, concatenated, is exactly what
\* the shell produced.
C9_InputForwardedOutputExact ==
    [][\A c \in Conns :
          /\ (HandlesFrame(c) /\ IsTerminalInput(HeadFrame(c))
                 /\ shell[c] = "Active")
             => shellIn'[c] = Append(shellIn[c], HeadFrame(c).data)
          /\ ~peerClosed'[c] => OutputBytes(sent'[c]) = Concat(produced'[c])]_vars

IsExplanatory(m) ==
    \/ m.type \in {MessageTypeSystemMessage, MessageTypeTerminalError}
    \/ /\ m.type = MessageTypeConnectionState
       /\ m.state \in {ConnectionStateDisconnected, ConnectionStateError}

IsConnectionError(m) ==
    m.type = MessageTypeConnectionState /\ m.state = ConnectionStateError

\* C11: when the client closes the transport (or a read fails) while the
\* session is connected, the remote connection handle is eventually
\* released.
C11_ClientCloseReleasesHandle ==
    \A c \in Conns :
        (peerClosed[c] /\ shell[c] = "Active")
        ~> (shell[c] = "Closed" /\ released[c] = 1)

\* C12: whenever the server closes the websocket, that step is preceded by
\* exactly one explanatory message written to the client.
C12_NoSilentClose ==
    [][\A c \in Conns :
          (~srvClosed[c] /\ srvClosed'[c])
          => /\ Len(sent'[c]) = Len(sent[c]) + 1
             /\ IsExplanatory(sent'[c][Len(sent'[c])])]_vars

\* C13: a connection_request whose dial fails is reported as exactly one
\* connection_state error message, the session is terminated and the server
\* does not dial again (the teardown that follows is not part of the step).
C13_DialFailureReported ==
    [][\A c \in Conns :
          (pc[c] = "dial" /\ pc'[c] # "dial" /\ target[c] # "good")
          => /\ shell'[c] = "Failed"
             /\ Len(sent'[c]) = Len(sent[c]) + 1
             /\ IsConnectionError(sent'[c][Len(sent'[c])])
             /\ dials'[c] = dials[c]]_vars

\* C14: a resize frame handled while the session is Active sets the remote
\* PTY geometry to the columns and rows of the frame, with no state
\* transition.
C14_ResizeAppliedWhenActive ==
    [][\A c \in Conns :
          (HandlesFrame(c) /\ IsResize(HeadFrame(c)) /\ shell[c] = "Active")
          => /\ pty'[c] = HeadFrame(c).data
             /\ shell'[c] = shell[c]
             /\ pc'[c] = "read"]_vars

\* C15: a resize frame handled before the session is Active changes nothing
\* of the connection or the session (so nothing of it is kept for later), and
\* a session that becomes Active starts with the initial geometry.
C15_EarlyResizeIgnored ==
    [][\A c \in Conns :
          /\ (HandlesFrame(c) /\ IsResize(HeadFrame(c)) /\ shell[c] # "Active")
             => /\ pty'[c] = pty[c]
                /\ shell'[c] = shell[c]
                /\ pc'[c] = pc[c]
                /\ target'[c] = target[c]
                /\ shellIn'[c] = shellIn[c]
                /\ sessions'[c] = sessions[c]
                /\ connectCalls'[c] = connectCalls[c]
                /\ dials'[c] = dials[c]
                /\ released'[c] = released[c]
                /\ srvClosed'[c] = srvClosed[c]
                /\ Len(sent'[c]) <= Len(sent[c]) + 1
          /\ (shell[c] # "Active" /\ shell'[c] = "Active")
             => pty'[c] = InitialGeometry]_vars

\* a resize frame was handled before the session became Active
C15_Witness ==
    \E c \in Conns :
        /\ earlyResize[c]
        /\ shell[c] = "Active"
        /\ pty[c] = InitialGeometry

\* p occurs in s as a contiguous substring
ContainsSeq(s, p) ==
    \E i \in 1..(Len(s) - Len(p) + 1) : SubSeq(s, i, i + Len(p) - 1) = p

IsSensitive(s) == \E p \in SensitivePatterns : ContainsSeq(s, p)

\* the message types of message.go and the connection request of HandleWs
KnownMessageTypes ==
    {MessageTypeTerminalInput, MessageTypeTerminalOutput,
     MessageTypeTerminalError, MessageTypeSystemMessage,
     MessageTypeConnectionState, MessageTypeRequestPrompt,
     MessageTypeConnectionRequest}

\* the zero value of Message as the model's decoder represents it
ZeroMessage == [type |-> "", data |-> <<>>, meta |-> "none"]

\* the handler treated the frame it took as rejected: nothing of the session
\* changed and one explanatory message was written
FrameRejected(c) ==
    /\ pc'[c] = "read"
    /\ shell'[c] = shell[c]
    /\ shellIn'[c] = shellIn[c]
    /\ pty'[c] = pty[c]
    /\ connectCalls'[c] = connectCalls[c]
    /\ dials'[c] = dials[c]
    /\ Len(sent'[c]) = Len(sent[c]) + 1
    /\ IsExplanatory(sent'[c][Len(sent'[c])])

\* C16: with MessageRate frames already taken in the current window the next
\* frame is rejected; once the window has elapsed a valid connection_request
\* is accepted again.
C16_RateLimited ==
    [][\A c \in Conns :
          HandlesFrame(c)
          => IF windowCount[c] >= MessageRate
               THEN FrameRejected(c)
               ELSE (HeadFrame(c) = Frame("ok", MessageTypeConnectionRequest,
                                          <<>>, "good")
                       /\ shell[c] = "Idle") => pc'[c] = "dial"]_vars

\* C17: a chunk of shell output that holds a sensitive pattern and is
\* delivered to the client arrives as a terminal_output message that carries
\* the redaction token and none of the sensitive patterns.
C17_SensitiveOutputRedacted ==
    [][\A c \in Conns :
          (/\ Len(produced'[c]) = Len(produced[c]) + 1
           /\ IsSensitive(produced'[c][Len(produced'[c])])
           /\ srvClosed'[c] = srvClosed[c])
          => /\ Len(sent'[c]) = Len(sent[c]) + 1
             /\ IsTerminalOutput(sent'[c][Len(sent'[c])])
             /\ ContainsSeq(sent'[c][Len(sent'[c])].data, RedactReplacement)
             /\ ~IsSensitive(sent'[c][Len(sent'[c])].data)]_vars

\* a middleware stage ahead of the session rejects the frame the handler takes
StageRejects(c) ==
    \/ ip[c] \in BlockedIPs
    \/ key[c] # ValidKey
    \/ windowCount[c] >= MessageRate
    \/ IsTerminalInput(HeadFrame(c)) /\ MatchesCommandRule(HeadFrame(c).data)

\* C18: a frame that a stage of the chain IP policy, key authentication, rate
\* limiting, command filter rejects is not forwarded to the session: no
\* Connect call, no dial, no byte to the shell, no change of the session.
C18_RejectedNotForwarded ==
    [][\A c \in Conns :
          (HandlesFrame(c) /\ StageRejects(c))
          => /\ connectCalls'[c] = connectCalls[c]
             /\ dials'[c] = dials[c]
             /\ shellIn'[c] = shellIn[c]
             /\ shell'[c] = shell[c]
             /\ pty'[c] = pty[c]
             /\ pc'[c] = "read"]_vars

\* C19: a well-formed frame of a type the server does not know, taken while
\* the connection is open, is answered with one system_message.
C19_UnknownTypeAnswered ==
    [][\A c \in Conns :
          (/\ HandlesFrame(c)
           /\ ~Malformed(HeadFrame(c))
           /\ HeadFrame(c).type \notin KnownMessageTypes
           /\ ~peerClosed[c] /\ ~srvClosed[c])
          => /\ Len(sent'[c]) = Len(sent[c]) + 1
             /\ sent'[c][Len(sent'[c])].type = MessageTypeSystemMessage]_vars

\* C20: for every frame the handler is about to decode that is malformed or
\* whose type is outside the enumeration, ParseMessage returns an error and a
\* zero Message.
C20_DecodeFailsClosed ==
    \A c \in Conns :
        \A i \in 1..Len(inbox[c]) :
            (Malformed(inbox[c][i]) \/ inbox[c][i].type \notin KnownMessageTypes)
            => /\ ParseMessage(inbox[c][i]).err
               /\ ParseMessage(inbox[c][i]).msg = ZeroMessage

\* C21: frames leave the connection's queue one at a time, oldest first, and
\* only while no earlier frame is still being handled: while a
\* connection_request is in progress (its reply not yet written) no frame is
\* taken.
C21_ProcessedInOrder ==
    [][\A c \in Conns :
          (inbox'[c] # inbox[c] /\ Len(inbox'[c]) <= Len(inbox[c]))
          => /\ pc[c] = "read"
             /\ inbox[c] # <<>>
             /\ inbox'[c] = Tail(inbox[c])]_vars

C21_Witness ==
    \E c \in Conns :
        /\ windowCount[c] >= 2
        /\ connects[c] >= 1
        /\ pc[c] = "read"
        /\ inbox[c] # <<>>

\* C22: once one side of an Active bridge has met a terminal error (the read
\* loop has returned, or the remote stream has ended), both sides stop: the
\* read loop is done and the session is Closed.
C22_BridgeDiesTogether ==
    \A c \in Conns :
        (shell[c] = "Active" /\ (pc[c] = "done" \/ eof[c]))
            ~> (shell[c] = "Closed" /\ pc[c] = "done")

C24_OutputDataVerbatim ==
    outMsg # NoMessage
    => /\ outMsg.type = MessageTypeTerminalOutput
       /\ outMsg.data = payload

C24_Witness ==
    /\ outMsg # NoMessage
    /\ outMsg.has_ansi
    /\ outMsg.data = <<ESC, "[", "m">>

\* C25: has_ansi of the message built from an output string is true exactly
\* when the string holds a CSI sequence for colour or cursor control, as the
\* terminal's own detection defines them.
C25_HasAnsiIffCSI ==
    outMsg # NoMessage
    => outMsg.has_ansi = containsAnsiEscapeCodes(payload)

IsBareConnectionRequest(f) ==
    f = Frame("ok", MessageTypeConnectionRequest, <<>>, "none")

\* C29: a connection_request without metadata starts no connect and no dial
\* and leaves the session and the websocket as they are; the loop goes back
\* to its read, and on an open connection exactly one system_message is
\* written for it.
C29_BareRequestDiagnosed ==
    [][\A c \in Conns :
          (HandlesFrame(c) /\ IsBareConnectionRequest(HeadFrame(c)))
          => /\ connectCalls'[c] = connectCalls[c]
             /\ dials'[c] = dials[c]
             /\ shell'[c] = shell[c]
             /\ srvClosed'[c] = srvClosed[c]
             /\ pc'[c] = "read"
             /\ Len(sent'[c]) <= Len(sent[c]) + 1
             /\ (~peerClosed[c] /\ ~srvClosed[c])
                   => /\ Len(sent'[c]) = Len(sent[c]) + 1
                      /\ sent'[c][Len(sent'[c])] = RequestFailedMessage
                      /\ sent'[c][Len(sent'[c])].type = MessageTypeSystemMessage]_vars

\* a bare request was answered and the frame after it was handled as well
C29_Witness ==
    \E c \in Conns :
        /\ \E i \in 1..Len(sent[c]) : sent[c][i] = RequestFailedMessage
        /\ connectCalls[c] = 0
        /\ windowCount[c] >= 2
        /\ ~srvClosed[c]
        /\ pc[c] = "read"

IsProduction(hostname) == ~IsDevelopment(hostname)

\* C26: on a production hostname no /validate-key submission is handled by
\* handleDummyAuth and no api_key URL parameter bypasses the form.
C26_ProductionAuthLocked ==
    IsProduction(browser.hostname)
    => /\ ~browser.dummyAuthRan
       /\ ~browser.urlBypassed

\* C27: right after a page unload, a window error or an unhandled rejection
\* the key is in neither the memory field nor sessionStorage and getAPIKey
\* yields none; localStorage never holds it.
C27_KeyClearedOnErrorAndUnload ==
    /\ browser.localStorage = NoKey
    /\ browser.lastEvent \in {"beforeunload", "error", "unhandledrejection"}
          => /\ app.apiKey = NoKey
             /\ browser.sessionStorage = NoKey
             /\ getAPIKey(app, browser) = NoKey

\* C28: a lost websocket connection of a page that stays open leads to a new
\* connection attempt.
C28_LostConnectionRetried ==
    (browser.ws = "lost" /\ browser.page = "ready")
        ~> (browser.ws = "connecting" \/ browser.page # "ready")

\* C30: once Shutdown has made the http server stop serving, the goroutine
\* of Start completes its send on done and terminates.
C30_StartGoroutineTerminates ==
    (srv.serve = "closed") ~> (srv.serve = "stopped")

\* C31: once server.New has returned, the directory the server serves static
\* files from is absolute and exists.
C31_StaticDirAbsoluteAndChecked ==
    boot.state = "returned"
    => /\ IsAbs(boot.FrontendDir)
       /\ boot.FrontendDir \in boot.fs

SimStep == sim'.handled = sim.handled + 1

\* C32: handling Enter writes CR LF, then the command's result if the
\* trimmed buffer is not empty, then the prompt, in this order, and leaves
\* the buffer empty.
C32_EnterWritesInOrder ==
    [][(SimStep /\ sim'.lastInput \in {<<CR>>, <<LF>>})
          => LET cmd == TrimSpace(sim.currentInput)
             IN  /\ sim'.out =
                       sim.out
                       \o <<NewTerminalOutput(<<CR, LF>>)>>
                       \o (IF cmd # <<>>
                             THEN <<NewTerminalOutput(CommandOutput(cmd))>>
                             ELSE <<>>)
                       \o <<NewTerminalOutput(ShellPrompt)>>
                 /\ cmd # <<>> => CommandOutput(cmd) # <<>>
                 /\ sim'.currentInput = <<>>]_vars

C32_Witness ==
    /\ sim.lastInput = <<CR>>
    /\ Len(sim.out) = 5
    /\ sim.out[4] = NewTerminalOutput(CommandOutput(<<"l", "s">>))
    /\ sim.out[5] = NewTerminalOutput(ShellPrompt)

\* C33: the buffer holds printable characters only, and it grows by one
\* character at a time, each echoed as one terminal_output in that step.
C33_BufferPrintableEchoed ==
    [][/\ \A i \in 1..Len(sim'.currentInput) :
             Code(sim'.currentInput[i]) \in 32..126
       /\ Len(sim'.currentInput) > Len(sim.currentInput)
             => /\ Len(sim'.currentInput) = Len(sim.currentInput) + 1
                /\ SubSeq(sim'.currentInput, 1, Len(sim.currentInput))
                      = sim.currentInput
                /\ sim'.out = Append(sim.out, NewTerminalOutput(
                      <<sim'.currentInput[Len(sim'.currentInput)]>>))]_vars

C33_Witness ==
    /\ sim.currentInput = <<"l", "s">>
    /\ sim.out = <<NewTerminalOutput(<<"l">>), NewTerminalOutput(<<"s">>)>>

\* C34: DEL on an empty buffer writes nothing and changes nothing; on a
\* non-empty buffer it drops the last character and writes one
\* terminal_output with backspace, space, backspace.
C34_BackspaceEffect ==
    [][(SimStep /\ sim'.lastInput = <<DEL>>)
          => IF sim.currentInput = <<>>
               THEN sim'.currentInput = <<>> /\ sim'.out = sim.out
               ELSE /\ sim'.currentInput =
                          SubSeq(sim.currentInput, 1, Len(sim.currentInput) - 1)
                    /\ sim'.out = Append(sim.out,
                                         NewTerminalOutput(EraseSequence))]_vars

C34_Witness ==
    /\ sim.lastInput = <<DEL>>
    /\ sim.currentInput = <<"l">>
    /\ sim.out # <<>>
    /\ sim.out[Len(sim.out)] = NewTerminalOutput(EraseSequence)

IsHandledInput(input) ==
    \/ input \in {<<CR>>, <<LF>>, <<DEL>>}
    \/ Len(input) = 1 /\ Code(input[1]) \in 32..126

\* C35: a terminal_input payload that is not CR, LF, DEL or one printable
\* character leaves the buffer as it is and nothing is written.
C35_OtherPayloadsIgnored ==
    [][(SimStep /\ sim'.lastKey # "prompt" /\ ~IsHandledInput(sim'.lastInput))
          => /\ sim'.currentInput = sim.currentInput
             /\ sim'.out = sim.out]_vars

C35_Witness ==
    /\ sim.lastInput = <<CR, LF>>
    /\ sim.lastKey = "none"
    /\ sim.currentInput = <<"l", "s">>
    /\ Len(sim.out) = 2

\* C36: Backspace on the mobile keyboard with a non-empty buffer removes the
\* last character of the buffer.
C36_MobileBackspaceErases ==
    [][(SimStep /\ sim'.lastKey = "Backspace" /\ sim.currentInput # <<>>)
          => sim'.currentInput =
                SubSeq(sim.currentInput, 1, Len(sim.currentInput) - 1)]_vars

\* the frame type the page sends for an event
FrameTypeOf(event) ==
    CASE event = "input"  -> MessageTypeTerminalInput
      [] event = "resize" -> MessageTypeResize
      [] OTHER            -> MessageTypeRequestPrompt

\* C37: a frame is given to the socket only in the step of its own event
\* (input, resize, prompt timer) and only with the socket open before that
\* step; no other step, the opening of the socket included, sends anything.
C37_SendsOnlyWhileOpen ==
    [][browser'.wsSent # browser.wsSent
          => /\ browser.ws = "open"
             /\ browser'.lastEvent \in {"input", "resize", "prompt"}
             /\ browser'.wsSent =
                   Append(browser.wsSent, FrameTypeOf(browser'.lastEvent))]_vars

\* an event was discarded before the socket opened and a later one was sent
C37_Witness ==
    /\ browser.dropped
    /\ browser.ws = "open"
    /\ browser.wsSent = <<MessageTypeTerminalInput>>

TypeOK ==
    /\ pc \in [Conns -> {"wait", "read", "dial", "done"}]
    /\ shell \in [Conns -> {"None", "Idle", "Connecting", "Active", "Closed",
                            "Failed"}]
    /\ \A c \in Conns : Len(inbox[c]) <= MaxInbox /\ nframes[c] <= MaxFrames

====
